---- MODULE Spec2Model ----
(***************************************************************************)
(* A model of ch341/ch341.py: the Ch341 handle (its cached configuration,  *)
(* GPIO register and interrupt callback), the driver library it calls      *)
(* (ch341dll, the transport), and the operations of the handle.  Every     *)
(* operation is one action: the handler runs to its return or to the first *)
(* exception, and the transport's answers to its calls are the action's    *)
(* nondeterministic inputs.                                                *)
(***************************************************************************)
EXTENDS Integers, Sequences, FiniteSets, TLC

VARIABLES
    handle,         \* self.handle: <<>> before open(), <<h>> afterwards
    eeprom_type,    \* self._eeprom_type: <<>> is None
    i2c_speed,      \* self._i2c_speed
    spi_bit_order,  \* self._spi_bit_order
    io_rw,          \* self._io_rw, the cached direction mask
    io_out,         \* self._io_out, the cached output mask
    callback,       \* self._callback: 0 is c_void_p(0), else the bound function
    dev,            \* the driver/device side: what the transport has accepted
    present,        \* the I2C addresses that acknowledge on the bus
    buf1,           \* the caller's first SPI buffer
    buf2,           \* the caller's second SPI buffer, <<>> wrapped: <<b>> or <<>> for None
    calls,          \* the transport calls of the most recent operation, in order
    op,             \* the most recent operation: name, arguments, outcome, state before
    scans,          \* the lists returned by the completed i2c_scan() calls
    nops,           \* operations performed so far, where a specification counts them
    irq,            \* the owning thread inside interrupt_bind / interrupt_clear (pc), and
                    \* the callbacks the interrupt thread has invoked
    mem,            \* the registers of the I2C peripherals: <<device, register>> -> byte
    hist            \* history: the arguments of the latest set_i2c_speed and
                    \* set_spi_bit_order calls, and whether the transport accepted
                    \* every configuration push so far

vars == <<handle, eeprom_type, i2c_speed, spi_bit_order, io_rw, io_out, callback,
          dev, present, buf1, buf2, calls, op, scans, nops, irq, mem, hist>>

----------------------------------------------------------------------------
(* Bounds of the model *)

MaxCallbacks == 3
MaxHandle == 0
MaxDevices == 3
MaxRespLen == 2
MaxScans == 2
MaxBufLen == 2
MaxGpioOps == 3
MaxSpeedArg == 5
MaxFailCall == 6
MaxEepromType == 1
MaxI2cOps == 2

(* Program constants *)

mCH341_PACKET_LENGTH == 32
mCH341A_CMD_I2C_STREAM == 170
mCH341A_CMD_I2C_STM_STA == 116
mCH341A_CMD_I2C_STM_STO == 117
mCH341A_CMD_I2C_STM_OUT == 128
mCH341A_CMD_I2C_STM_END == 0
SPI_NOCS == 0
SPI_CS0 == 128
SPI_CS1 == 129
SPI_CS2 == 130
SPI_MSBFIRST == 128
SPI_LSBFIRST == 0
NumAddr == 127
NumPins == 6
AckBufLen == 10

----------------------------------------------------------------------------
(* Python's integer operators on naturals *)

RECURSIVE BitAnd(_, _)
BitAnd(x, y) ==
    IF x = 0 \/ y = 0 THEN 0
    ELSE (x % 2) * (y % 2) + 2 * BitAnd(x \div 2, y \div 2)

RECURSIVE BitOr(_, _)
BitOr(x, y) ==
    IF x = 0 THEN y
    ELSE IF y = 0 THEN x
    ELSE (IF x % 2 = 1 \/ y % 2 = 1 THEN 1 ELSE 0) + 2 * BitOr(x \div 2, y \div 2)

RECURSIVE BitXor(_, _)
BitXor(x, y) ==
    IF x = 0 THEN y
    ELSE IF y = 0 THEN x
    ELSE (IF x % 2 # y % 2 THEN 1 ELSE 0) + 2 * BitXor(x \div 2, y \div 2)

RECURSIVE Pow2(_)
Pow2(n) == IF n = 0 THEN 1 ELSE 2 * Pow2(n - 1)

Shl(x, n) == x * Pow2(n)

Bit(x, n) == (x \div Pow2(n)) % 2

PyBool(x) == IF x = 0 THEN 0 ELSE 1

c_uint8(x) == x % 256

Max2(a, b) == IF a >= b THEN a ELSE b

Min2(a, b) == IF a <= b THEN a ELSE b

Last(s) == s[Len(s)]

Range(s) == {s[i] : i \in 1..Len(s)}

----------------------------------------------------------------------------
(* The handle and the driver side as records, and a handler's run *)

Handle ==
    [handle |-> handle, eeprom_type |-> eeprom_type, i2c_speed |-> i2c_speed,
     spi_bit_order |-> spi_bit_order, io_rw |-> io_rw, io_out |-> io_out,
     callback |-> callback]

NewHandle ==
    [handle |-> <<>>, eeprom_type |-> <<>>, i2c_speed |-> 0,
     spi_bit_order |-> SPI_LSBFIRST, io_rw |-> 0, io_out |-> 0, callback |-> 0]

NewDev ==
    [open |-> FALSE, routine |-> 0, rw |-> 0, out |-> 0, config |-> 0,
     exclusive |-> 0]

NoOp == [name |-> "init", args |-> <<>>, raised |-> FALSE, ret |-> <<>>,
         pre |-> NewHandle, bufs |-> <<<<>>, <<>>>>]

(* A transport: the call of the operation that fails (0: none), whether the *)
(* failure is an empty response rather than a false result, the handle     *)
(* OpenDevice returns, the shape of the status responses, and what the SPI *)
(* peripheral shifts back.                                                 *)
Transport(failAt, empty, h, len, fill, low) ==
    [failAt |-> failAt, empty |-> empty, handle |-> h, len |-> len,
     fill |-> fill, low |-> low, miso |-> "echo"]

GoodTransport == Transport(0, FALSE, 0, 1, 0, 0)

FailingAt(k) == Transport(k, FALSE, 0, 1, 0, 0)

Begin(tr) ==
    [h |-> Handle, dev |-> dev, log |-> <<>>, raised |-> FALSE, ret |-> <<>>,
     ack |-> FALSE, bufs |-> <<buf1, buf2>>, mem |-> mem, tr |-> tr]

Call(fn, args, ok, resp) == [fn |-> fn, args |-> args, ok |-> ok, resp |-> resp]

(* Whether the transport lets the next call of run r succeed *)
NextOk(r) == r.tr.failAt # Len(r.log) + 1

(* A call whose result the handler checks: it is logged, the driver side   *)
(* becomes d when the transport accepts it, and the handler raises         *)
(* CH341Error("Operation Failed.") when it does not.  A handler that has   *)
(* raised runs no further.                                                 *)
Issue(r, fn, args, d) ==
    IF r.raised THEN r
    ELSE LET ok == NextOk(r)
         IN [r EXCEPT !.log = Append(@, Call(fn, args, ok, <<>>)),
                      !.raised = ~ok,
                      !.dev = IF ok THEN d ELSE @]

----------------------------------------------------------------------------
(* GPIO *)

_update_io_state(r) ==
    Issue(r, "CH341Set_D5_D0", <<c_uint8(r.h.io_rw), c_uint8(r.h.io_out)>>,
          [r.dev EXCEPT !.rw = c_uint8(r.h.io_rw), !.out = c_uint8(r.h.io_out)])

update_io_state(r, rw, out) ==
    IF r.raised THEN r
    ELSE _update_io_state([r EXCEPT !.h.io_rw = rw, !.h.io_out = out])

(* SetBit with the bit assigned instead of or-ed in: x = bool(v) << io *)
SetBitAssign(x, io, v) == Shl(PyBool(v), io)

(* x &= 0xFF ^ (1 << io); x |= bool(v) << io *)
SetBit(x, io, v) == BitOr(BitAnd(x, BitXor(255, Shl(1, io))), Shl(PyBool(v), io))

set_io_rw(r, io, rw) ==
    IF r.raised THEN r
    ELSE _update_io_state([r EXCEPT !.h.io_rw = SetBit(@, io, rw)])

io_write(r, io, level) ==
    IF r.raised THEN r
    ELSE _update_io_state([r EXCEPT !.h.io_out = SetBit(@, io, level)])

(* The pin spi_init treats as DOUT1 *)
Dout1Pin == 5

(* spi_init that makes the chip select an output before it sets its level *)
spi_initDirectionFirst(r, cs) ==
    LET r1 == set_io_rw(io_write(r, 3, 0), 3, 1)
        r2 == set_io_rw(io_write(r1, 5, 0), 5, 1)
        r3 == set_io_rw(io_write(r2, Dout1Pin, 0), Dout1Pin, 1)
    IN IF cs = SPI_CS0 THEN io_write(set_io_rw(r3, 0, 1), 0, 1)
       ELSE IF cs = SPI_CS1 THEN io_write(set_io_rw(r3, 1, 1), 1, 1)
       ELSE IF cs = SPI_CS2 THEN io_write(set_io_rw(r3, 2, 1), 2, 1)
       ELSE r3

spi_init(r, cs) ==
    LET r1 == set_io_rw(io_write(r, 3, 0), 3, 1)
        r2 == set_io_rw(io_write(r1, 5, 0), 5, 1)
        r3 == set_io_rw(io_write(r2, Dout1Pin, 0), Dout1Pin, 1)
    IN IF cs = SPI_CS0 THEN set_io_rw(io_write(r3, 0, 1), 0, 1)
       ELSE IF cs = SPI_CS1 THEN set_io_rw(io_write(r3, 1, 1), 1, 1)
       ELSE IF cs = SPI_CS2 THEN set_io_rw(io_write(r3, 2, 1), 2, 1)
       ELSE r3

----------------------------------------------------------------------------
(* I2C bus scan *)

(* What the transport answers to OUT(byte): len bytes, the last of them    *)
(* the status, whose bit 7 is clear exactly when a device at address       *)
(* byte >> 1 acknowledges; the bytes before it have the opposite bit 7.    *)
StatusResponse(byte, tr) ==
    LET nack == (byte \div 2) \notin present
        status == (IF nack THEN 128 ELSE 0) + tr.low
        filler == (IF nack THEN 0 ELSE 128) + tr.fill
    IN [i \in 1..tr.len |-> IF i = tr.len THEN status ELSE filler]

_i2c_start_stop(r, start) ==
    Issue(r, "CH341WriteData",
          <<mCH341A_CMD_I2C_STREAM,
            IF start # 0 THEN mCH341A_CMD_I2C_STM_STA ELSE mCH341A_CMD_I2C_STM_STO,
            mCH341A_CMD_I2C_STM_END>>,
          r.dev)

(* The ACK test on the first byte of the response instead of the last *)
AckFirstByte(resp) == BitAnd(resp[1], 128) = 0

(* not (buf[length.value - 1] & 0x80) *)
Ack(resp) == BitAnd(Last(resp), 128) = 0

(* The transport fails the call with a false result, or (tr.empty) with a  *)
(* true result and no byte; a response longer than buf makes the index     *)
(* buf[length - 1] fail.  r.ack is the value returned: TRUE for ACK.       *)
_i2c_out_byte_check_ack(r, byte) ==
    IF r.raised THEN r
    ELSE LET failed == ~NextOk(r)
             result == ~(failed /\ ~r.tr.empty)
             resp == IF failed THEN <<>> ELSE StatusResponse(byte, r.tr)
             cmd == <<mCH341A_CMD_I2C_STREAM, mCH341A_CMD_I2C_STM_OUT, byte,
                      mCH341A_CMD_I2C_STM_END>>
             bad == ~result \/ Len(resp) = 0 \/ Len(resp) > AckBufLen
         IN [r EXCEPT !.log = Append(@, Call("CH341WriteRead", cmd, result, resp)),
                      !.raised = bad,
                      !.ack = ~bad /\ Ack(resp)]

(* A pass of the loop that leaves out the stop once the address ACKed *)
scan_cycleNoStopOnAck(r, addr) ==
    LET r2 == _i2c_out_byte_check_ack(_i2c_start_stop(r, 1), Shl(addr, 1))
    IN IF ~r2.raised /\ r2.ack THEN [r2 EXCEPT !.ret = Append(@, addr)]
       ELSE _i2c_start_stop(r2, 0)

(* One pass of the loop of i2c_scan; r.ret is the list out *)
scan_cycle(r, addr) ==
    LET r2 == _i2c_out_byte_check_ack(_i2c_start_stop(r, 1), Shl(addr, 1))
    IN _i2c_start_stop(IF ~r2.raised /\ r2.ack THEN [r2 EXCEPT !.ret = Append(@, addr)]
                       ELSE r2,
                       0)

(* The passes for addr = lo, ..., hi - 1 one after the other, written by   *)
(* halves to keep the evaluation shallow.                                  *)
RECURSIVE scan_range(_, _, _)
scan_range(r, lo, hi) ==
    IF r.raised \/ lo >= hi THEN r
    ELSE IF hi = lo + 1 THEN scan_cycle(r, lo)
    ELSE scan_range(scan_range(r, lo, (lo + hi) \div 2), (lo + hi) \div 2, hi)

(* out = []; for addr in range(127): ...; return out *)
i2c_scan(r) == scan_range([r EXCEPT !.ret = <<>>], 0, NumAddr)

----------------------------------------------------------------------------
(* I2C register transfers *)

(* The peripheral side of a stream: the device a first byte addresses, the *)
(* registers n bytes from reg on occupy (the register pointer wraps), what *)
(* a write stores and what a read finds; a register never written reads as *)
(* the idle bus, 255.                                                      *)
Cell(first, reg, i) == <<first \div 2, (reg + i - 1) % 256>>

Store(m, first, reg, data) ==
    LET cells == {Cell(first, reg, i) : i \in 1..Len(data)}
    IN [x \in DOMAIN m \cup cells |->
           IF x \in cells
           THEN data[CHOOSE i \in 1..Len(data) :
                        /\ Cell(first, reg, i) = x
                        /\ \A j \in (i + 1)..Len(data) : Cell(first, reg, j) # x]
           ELSE m[x]]

Load(m, first, reg, n) ==
    [i \in 1..n |-> IF Cell(first, reg, i) \in DOMAIN m THEN m[Cell(first, reg, i)] ELSE 255]

IsByte(x) == x \in 0..255

(* A raise before any call to the DLL *)
Raise(r) == [r EXCEPT !.raised = TRUE]

(* i2c_write that sends the register and the data without the device byte *)
i2c_writeNoDevice(r, dev_addr, addr) ==
    IF r.raised THEN r
    ELSE LET payload == <<addr>> \o r.bufs[1]
             ok == NextOk(r)
         IN [r EXCEPT !.log = Append(@, Call("CH341StreamI2C", <<Len(payload), payload, 0>>,
                                             ok, <<>>)),
                      !.raised = ~ok]

(* buf is r.bufs[1].  bytearray([dev_addr << 1, addr]) takes bytes only.   *)
i2c_write(r, dev_addr, addr) ==
    IF r.raised THEN r
    ELSE IF ~IsByte(Shl(dev_addr, 1)) \/ ~IsByte(addr) THEN Raise(r)
    ELSE LET payload == <<Shl(dev_addr, 1), addr>> \o r.bufs[1]
             ok == NextOk(r)
         IN [r EXCEPT !.log = Append(@, Call("CH341StreamI2C", <<Len(payload), payload, 0>>,
                                             ok, <<>>)),
                      !.raised = ~ok,
                      !.mem = IF ok
                              THEN Store(@, payload[1], payload[2], SubSeq(payload, 3, Len(payload)))
                              ELSE @]

(* buf is r.bufs[2]: <<>> for None; length is <<>> for None.  The two      *)
(* bytes of write_buf are c_uint8, which keeps the low eight bits.  The    *)
(* bytes read are written into buf, which is also the value returned.      *)
i2c_read(r, dev_addr, addr, length) ==
    IF r.raised THEN r
    ELSE IF r.bufs[2] = <<>> /\ length = <<>> THEN Raise(r)
    ELSE LET n == IF length = <<>> THEN Len(r.bufs[2][1]) ELSE length[1]
             buf == IF r.bufs[2] = <<>> THEN [i \in 1..n |-> 0] ELSE r.bufs[2][1]
             write_buf == <<c_uint8(Shl(dev_addr, 1)), c_uint8(addr)>>
         IN IF Len(buf) < n THEN Raise(r)
            ELSE LET ok == NextOk(r)
                     got == Load(r.mem, write_buf[1], write_buf[2], n)
                     data == [i \in 1..Len(buf) |-> IF ok /\ i <= n THEN got[i] ELSE buf[i]]
                 IN [r EXCEPT !.log = Append(@, Call("CH341StreamI2C", <<2, write_buf, n>>, ok,
                                                     IF ok THEN got ELSE <<>>)),
                              !.raised = ~ok,
                              !.ret = IF ok THEN data ELSE <<>>,
                              !.bufs = <<r.bufs[1],
                                         IF r.bufs[2] = <<>> THEN <<>> ELSE <<data>>>>]

----------------------------------------------------------------------------
(* EEPROM *)

(* An argument of set_eeprom_type: an int, or an object of another type *)
IntArg(v) == [int |-> TRUE, val |-> v]

NonIntArg == [int |-> FALSE, val |-> 0]

set_eeprom_type(r, etype) ==
    IF r.raised THEN r
    ELSE IF ~etype.int THEN Raise(r)
    ELSE [r EXCEPT !.h.eeprom_type = <<etype.val>>]

(* buf is r.bufs[2]: <<>> for None; length is <<>> for None.  The bytes    *)
(* read are written into buf, which is also the value returned.            *)
eeprom_read(r, addr, length) ==
    IF r.raised THEN r
    ELSE IF r.h.eeprom_type = <<>> THEN Raise(r)
    ELSE IF r.bufs[2] = <<>> /\ length = <<>> THEN Raise(r)
    ELSE LET n == IF length = <<>> THEN Len(r.bufs[2][1]) ELSE length[1]
             buf == IF r.bufs[2] = <<>> THEN [i \in 1..n |-> 0] ELSE r.bufs[2][1]
         IN IF Len(buf) < n THEN Raise(r)
            ELSE LET ok == NextOk(r)
                     data == [i \in 1..Len(buf) |->
                                 IF ok /\ i <= n THEN r.tr.fill ELSE buf[i]]
                 IN [r EXCEPT !.log = Append(@, Call("CH341ReadEEPROM",
                                                     <<r.h.eeprom_type[1], addr, n>>, ok,
                                                     SubSeq(data, 1, n))),
                              !.raised = ~ok,
                              !.ret = IF ok THEN data ELSE <<>>,
                              !.bufs = <<r.bufs[1],
                                         IF r.bufs[2] = <<>> THEN <<>> ELSE <<data>>>>]

(* eeprom_write without the check of the type *)
eeprom_writeUnchecked(r, addr) ==
    IF r.raised THEN r
    ELSE Issue(r, "CH341WriteEEPROM",
               <<IF r.h.eeprom_type = <<>> THEN 0 ELSE r.h.eeprom_type[1], addr,
                 Len(r.bufs[1])>> \o r.bufs[1], r.dev)

(* buf is r.bufs[1] *)
eeprom_write(r, addr) ==
    IF r.raised THEN r
    ELSE IF r.h.eeprom_type = <<>> THEN Raise(r)
    ELSE Issue(r, "CH341WriteEEPROM",
               <<r.h.eeprom_type[1], addr, Len(r.bufs[1])>> \o r.bufs[1], r.dev)

----------------------------------------------------------------------------
(* Stream configuration *)

(* The word of _update_config with the speed class alone *)
ConfigWordSpeedOnly(h) == h.i2c_speed

(* self._i2c_speed | self._spi_bit_order *)
ConfigWord(h) == BitOr(h.i2c_speed, h.spi_bit_order)

_update_config(r) ==
    Issue(r, "CH341SetStream", <<ConfigWord(r.h)>>, [r.dev EXCEPT !.config = ConfigWord(r.h)])

(* The clamp without its upper limit *)
ClampSpeedLower(speed) == Max2(0, speed)

(* max(0, min(3, speed)) *)
ClampSpeed(speed) == Max2(0, Min2(3, speed))

set_i2c_speed(r, speed) ==
    IF r.raised THEN r
    ELSE _update_config([r EXCEPT !.h.i2c_speed = ClampSpeed(speed)])

set_spi_bit_order(r, bit_order) ==
    IF r.raised THEN r
    ELSE _update_config([r EXCEPT !.h.spi_bit_order = bit_order])

----------------------------------------------------------------------------
(* SPI *)

(* What the peripheral shifts back for the bytes b shifted out *)
Miso(b, tr) ==
    [i \in 1..Len(b) |-> IF tr.miso = "echo" THEN b[i]
                         ELSE IF tr.miso = "invert" THEN 255 - b[i]
                         ELSE 0]

(* CH341StreamSPI4: one buffer, swapped in place *)
StreamSPI4(r, cs) ==
    LET b1 == r.bufs[1]
        ok == NextOk(r)
        in1 == IF ok THEN Miso(b1, r.tr) ELSE b1
    IN [r EXCEPT !.log = Append(@, Call("CH341StreamSPI4", <<cs, Len(b1)>> \o b1, ok, in1)),
                 !.raised = ~ok,
                 !.bufs = <<in1, r.bufs[2]>>]

(* CH341StreamSPI5: two buffers of one length, both swapped in place *)
StreamSPI5(r, cs) ==
    LET b1 == r.bufs[1]
        b2 == r.bufs[2][1]
        ok == NextOk(r)
        in1 == IF ok THEN Miso(b1, r.tr) ELSE b1
        in2 == IF ok THEN Miso(b2, r.tr) ELSE b2
    IN [r EXCEPT !.log = Append(@, Call("CH341StreamSPI5", <<cs, Len(b1)>> \o b1 \o b2, ok,
                                        in1 \o in2)),
                 !.raised = ~ok,
                 !.bufs = <<in1, <<in2>>>>]

(* spi_swap without the check of the two lengths *)
spi_swapUnchecked(r, cs) ==
    IF r.raised THEN r
    ELSE IF r.bufs[2] = <<>> THEN StreamSPI4(r, cs)
    ELSE StreamSPI5(r, cs)

(* The buffers are r.bufs: buf1, and <<buf2>> or <<>> for buf2=None *)
spi_swap(r, cs) ==
    IF r.raised THEN r
    ELSE IF r.bufs[2] = <<>> THEN StreamSPI4(r, cs)
    ELSE IF Len(r.bufs[1]) # Len(r.bufs[2][1]) THEN [r EXCEPT !.raised = TRUE]
    ELSE StreamSPI5(r, cs)

----------------------------------------------------------------------------
(* Lifecycle and interrupt callback *)

reset(r) == Issue(r, "CH341ResetDevice", <<>>, r.dev)

set_exclusive(r, exclusive) ==
    Issue(r, "CH341SetExclusive", <<exclusive>>, [r.dev EXCEPT !.exclusive = exclusive])

interrupt_bind(r, fn) ==
    IF r.raised THEN r
    ELSE Issue([r EXCEPT !.h.callback = fn], "CH341SetIntRoutine", <<fn>>,
               [r.dev EXCEPT !.routine = fn])

interrupt_clear(r) ==
    IF r.raised THEN r
    ELSE Issue([r EXCEPT !.h.callback = 0], "CH341SetIntRoutine", <<0>>,
               [r.dev EXCEPT !.routine = 0])

(* open() that goes on whatever handle CH341OpenDevice answers with *)
openUnchecked(r, exclusive) ==
    LET h == r.tr.handle
        r1 == [r EXCEPT !.h.handle = <<h>>,
                        !.log = Append(@, Call("CH341OpenDevice", <<>>, h >= 0, <<h>>)),
                        !.dev.open = (h >= 0) \/ @]
    IN set_exclusive(reset(r1), exclusive)

(* CH341OpenDevice answers with a handle, negative on failure *)
open(r, exclusive) ==
    LET h == r.tr.handle
        r1 == [r EXCEPT !.h.handle = <<h>>,
                        !.log = Append(@, Call("CH341OpenDevice", <<>>, h >= 0, <<h>>)),
                        !.dev.open = (h >= 0) \/ @,
                        !.raised = h < 0]
    IN set_exclusive(reset(r1), exclusive)

(* CH341CloseDevice returns nothing the handler checks *)
CloseDevice(r) ==
    IF r.raised THEN r
    ELSE [r EXCEPT !.log = Append(@, Call("CH341CloseDevice", <<>>, TRUE, <<>>)),
                   !.dev.open = FALSE]

(* close() that resets the device before it pushes the all-input register *)
closeResetFirst(r) == CloseDevice(update_io_state(reset(interrupt_clear(r)), 0, 0))

close(r) == CloseDevice(reset(update_io_state(interrupt_clear(r), 0, 0)))

----------------------------------------------------------------------------
(* An operation's effect on the state *)

Commit(name, args, r) ==
    /\ handle' = r.h.handle
    /\ eeprom_type' = r.h.eeprom_type
    /\ i2c_speed' = r.h.i2c_speed
    /\ spi_bit_order' = r.h.spi_bit_order
    /\ io_rw' = r.h.io_rw
    /\ io_out' = r.h.io_out
    /\ callback' = r.h.callback
    /\ dev' = r.dev
    /\ mem' = r.mem
    /\ irq' = irq
    /\ buf1' = r.bufs[1]
    /\ buf2' = r.bufs[2]
    /\ calls' = r.log
    /\ op' = [name |-> name, args |-> args, raised |-> r.raised, ret |-> r.ret,
              pre |-> Handle, bufs |-> <<buf1, buf2>>]

InitHandle ==
    /\ handle = NewHandle.handle
    /\ eeprom_type = NewHandle.eeprom_type
    /\ i2c_speed = NewHandle.i2c_speed
    /\ spi_bit_order = NewHandle.spi_bit_order
    /\ io_rw = NewHandle.io_rw
    /\ io_out = NewHandle.io_out
    /\ callback = NewHandle.callback
    /\ dev = NewDev
    /\ calls = <<>>
    /\ op = NoOp
    /\ scans = <<>>
    /\ nops = 0
    /\ mem = [x \in {} |-> 0]
    /\ irq = [pc |-> "idle", invoked |-> <<>>]
    /\ hist = [speed |-> <<>>, order |-> <<>>, ok |-> TRUE]

InitCommon ==
    /\ InitHandle
    /\ present = {}
    /\ buf1 = <<>>
    /\ buf2 = <<>>

----------------------------------------------------------------------------
(* The GPIO operations against a transport that accepts every push *)

Pins == 0..(NumPins - 1)

Levels == {0, 1, 2}

Masks == {0, Pow2(NumPins) - 1}

ChipSelects == {SPI_NOCS, SPI_CS0, SPI_CS1, SPI_CS2}

SetIoRw(io, rw, tr) ==
    /\ Commit("set_io_rw", <<io, rw>>, set_io_rw(Begin(tr), io, rw))
    /\ UNCHANGED <<present, scans, hist>>

IoWrite(io, level, tr) ==
    /\ Commit("io_write", <<io, level>>, io_write(Begin(tr), io, level))
    /\ UNCHANGED <<present, scans, hist>>

UpdateIoState(rw, out, tr) ==
    /\ Commit("update_io_state", <<rw, out>>, update_io_state(Begin(tr), rw, out))
    /\ UNCHANGED <<present, scans, hist>>

SpiInit(cs, tr) ==
    /\ Commit("spi_init", <<cs>>, spi_init(Begin(tr), cs))
    /\ UNCHANGED <<present, scans, hist>>

Reset(tr) ==
    /\ Commit("reset", <<>>, reset(Begin(tr)))
    /\ UNCHANGED <<present, scans, hist>>

GpioSetIoRw ==
    /\ nops < MaxGpioOps
    /\ nops' = nops + 1
    /\ \E io \in Pins, rw \in Levels : SetIoRw(io, rw, GoodTransport)

GpioIoWrite ==
    /\ nops < MaxGpioOps
    /\ nops' = nops + 1
    /\ \E io \in Pins, level \in Levels : IoWrite(io, level, GoodTransport)

GpioUpdateIoState ==
    /\ nops < MaxGpioOps
    /\ nops' = nops + 1
    /\ \E rw \in Masks, out \in Masks : UpdateIoState(rw, out, GoodTransport)

GpioSpiInit ==
    /\ nops < MaxGpioOps
    /\ nops' = nops + 1
    /\ \E cs \in ChipSelects : SpiInit(cs, GoodTransport)

GpioReset ==
    /\ nops < MaxGpioOps
    /\ nops' = nops + 1
    /\ Reset(GoodTransport)

NextGpio ==
    \/ GpioSetIoRw
    \/ GpioIoWrite
    \/ GpioUpdateIoState
    \/ GpioSpiInit
    \/ GpioReset

SpecGpio == InitCommon /\ [][NextGpio]_vars


----------------------------------------------------------------------------
(* The lifecycle against a transport that may reject any call *)

HandleValues == (0 - 1 - MaxHandle)..MaxHandle

Callbacks == 1..MaxCallbacks

Open(exclusive, tr) ==
    /\ Commit("open", <<exclusive>>, open(Begin(tr), exclusive))
    /\ UNCHANGED <<present, scans, hist>>

Close(tr) ==
    /\ Commit("close", <<>>, close(Begin(tr)))
    /\ UNCHANGED <<present, scans, hist>>

InterruptBind(fn, tr) ==
    /\ Commit("interrupt_bind", <<fn>>, interrupt_bind(Begin(tr), fn))
    /\ UNCHANGED <<present, scans, hist>>

InterruptClear(tr) ==
    /\ Commit("interrupt_clear", <<>>, interrupt_clear(Begin(tr)))
    /\ UNCHANGED <<present, scans, hist>>

LifeOpen ==
    /\ UNCHANGED nops
    /\ \E h \in HandleValues, exclusive \in {0, 1}, failAt \in {0, 2, 3} :
          Open(exclusive, Transport(failAt, FALSE, h, 1, 0, 0))

LifeClose ==
    /\ UNCHANGED nops
    /\ \E failAt \in 0..3 : Close(FailingAt(failAt))

LifeReset ==
    /\ UNCHANGED nops
    /\ \E failAt \in 0..1 : Reset(FailingAt(failAt))

LifeUpdateIoState ==
    /\ UNCHANGED nops
    /\ \E m \in Masks, failAt \in 0..1 : UpdateIoState(m, m, FailingAt(failAt))

LifeInterruptBind ==
    /\ UNCHANGED nops
    /\ \E fn \in Callbacks, failAt \in 0..1 : InterruptBind(fn, FailingAt(failAt))

LifeInterruptClear ==
    /\ UNCHANGED nops
    /\ \E failAt \in 0..1 : InterruptClear(FailingAt(failAt))

NextLife ==
    \/ LifeOpen
    \/ LifeClose
    \/ LifeReset
    \/ LifeUpdateIoState
    \/ LifeInterruptBind
    \/ LifeInterruptClear

SpecLife == InitCommon /\ [][NextLife]_vars

(* The interrupt callback alone: bind, clear and the clear of close() *)

IrqInterruptBind ==
    \E fn \in Callbacks, failAt \in 0..1 : InterruptBind(fn, FailingAt(failAt)) /\ UNCHANGED nops

IrqInterruptClear ==
    \E failAt \in 0..1 : InterruptClear(FailingAt(failAt)) /\ UNCHANGED nops

IrqClose ==
    \E failAt \in 0..3 : Close(FailingAt(failAt)) /\ UNCHANGED nops

NextIrq ==
    \/ IrqInterruptBind
    \/ IrqInterruptClear
    \/ IrqClose

SpecIrq == InitCommon /\ [][NextIrq]_vars

----------------------------------------------------------------------------
(* The stream configuration against a transport that may reject a push *)

SpeedArgs == ((0 - MaxSpeedArg)..MaxSpeedArg) \cup {99}

BitOrders == {SPI_MSBFIRST, SPI_LSBFIRST}

SetI2cSpeed(speed, tr) ==
    /\ Commit("set_i2c_speed", <<speed>>, set_i2c_speed(Begin(tr), speed))
    /\ hist' = [hist EXCEPT !.speed = <<speed>>, !.ok = @ /\ tr.failAt # 1]
    /\ UNCHANGED <<present, scans, nops>>

SetSpiBitOrder(bit_order, tr) ==
    /\ Commit("set_spi_bit_order", <<bit_order>>, set_spi_bit_order(Begin(tr), bit_order))
    /\ hist' = [hist EXCEPT !.order = <<bit_order>>, !.ok = @ /\ tr.failAt # 1]
    /\ UNCHANGED <<present, scans, nops>>

ConfigSetI2cSpeed ==
    \E speed \in SpeedArgs, failAt \in 0..1 : SetI2cSpeed(speed, FailingAt(failAt))

ConfigSetSpiBitOrder ==
    \E bit_order \in BitOrders, failAt \in 0..1 : SetSpiBitOrder(bit_order, FailingAt(failAt))

NextConfig ==
    \/ ConfigSetI2cSpeed
    \/ ConfigSetSpiBitOrder

SpecConfig == InitCommon /\ [][NextConfig]_vars

----------------------------------------------------------------------------
(* SPI exchanges on the caller's buffers *)

RECURSIVE SeqsUpTo(_, _)
SeqsUpTo(S, n) ==
    IF n = 0 THEN {<<>>}
    ELSE LET shorter == SeqsUpTo(S, n - 1)
         IN shorter \cup {Append(b, x) : b \in shorter, x \in S}

Buffers == SeqsUpTo({0, 165}, MaxBufLen)

SpiSwap(cs, tr) ==
    /\ Commit("spi_swap", <<cs>>, spi_swap(Begin(tr), cs))
    /\ UNCHANGED <<present, scans, hist, nops>>

SpiSpiSwap ==
    \E cs \in ChipSelects, failAt \in 0..1, miso \in {"echo", "invert", "zero"} :
        SpiSwap(cs, [FailingAt(failAt) EXCEPT !.miso = miso])

InitSpi ==
    /\ InitHandle
    /\ present = {}
    /\ buf1 \in Buffers
    /\ buf2 \in {<<>>} \cup {<<b>> : b \in Buffers}

NextSpi == SpiSpiSwap

SpecSpi == InitSpi /\ [][NextSpi]_vars

----------------------------------------------------------------------------
(* Bus scans against a bus with some devices on it *)

(* The addresses a device may sit at: both ends of the range and between *)
DevAddr(i) == ((i - 1) * 63) % NumAddr

BusAddrs == {DevAddr(i) : i \in 1..MaxDevices}


I2cScan(tr) ==
    LET r == i2c_scan(Begin(tr))
    IN /\ Commit("i2c_scan", <<>>, r)
       /\ scans' = IF r.raised THEN scans ELSE Append(scans, r.ret)
       /\ UNCHANGED <<present, hist>>

(* A scan the transport carries to the end, or to its last call, with every *)
(* framing of the status byte                                               *)
ScanI2cScan ==
    /\ nops < MaxScans
    /\ nops' = nops + 1
    /\ \E failAt \in {0, 3 * NumAddr}, len \in 1..MaxRespLen, low \in {0, 127} :
          I2cScan(Transport(failAt, FALSE, 0, len, 0, low))

(* A scan the transport cuts short: a call rejected, or an empty response *)
ScanI2cScanFails ==
    /\ nops < MaxScans
    /\ nops' = nops + 1
    /\ \E failAt \in 1..MaxFailCall, empty \in BOOLEAN :
          I2cScan(Transport(failAt, empty, 0, 1, 0, 0))

InitScan ==
    /\ InitHandle
    /\ present \in SUBSET BusAddrs
    /\ buf1 = <<>>
    /\ buf2 = <<>>

NextScan == ScanI2cScan \/ ScanI2cScanFails

SpecScan == InitScan /\ [][NextScan]_vars

----------------------------------------------------------------------------
(* The claims about the lifecycle and the interrupt callback *)

(* The register of a CH341Set_D5_D0 call: <<direction mask, output mask>> *)
IsPush(c) == c.fn = "CH341Set_D5_D0" /\ Len(c.args) = 2

Did(o, name, args) == o.name = name /\ o.args = args /\ ~o.raised

AllOk(log) == \A i \in 1..Len(log) : log[i].ok

(* The calls of a log without the transport's answers *)
Requests(log) == [i \in 1..Len(log) |-> <<log[i].fn, log[i].args>>]

(* C2: when every transport call succeeds, close() issues, in this order   *)
(* and with nothing else between: the null interrupt routine, the GPIO     *)
(* register direction 0x00 / output 0x00, the device reset, the release of *)
(* the device.                                                             *)
C2_CloseOrder ==
    (op.name = "close" /\ AllOk(calls))
    => Requests(calls) = << <<"CH341SetIntRoutine", <<0>>>>,
                            <<"CH341Set_D5_D0", <<0, 0>>>>,
                            <<"CH341ResetDevice", <<>>>>,
                            <<"CH341CloseDevice", <<>>>> >>

(* C2's case: a close() that completed on a handle with a callback bound   *)
(* and pins configured as outputs.                                         *)
C2_Witness ==
    /\ op.name = "close" /\ ~op.raised /\ AllOk(calls)
    /\ op.pre.callback # 0
    /\ op.pre.io_rw # 0

(* C3: every close() of a handle that was opened, whatever the transport   *)
(* answers to each step, pushes the all-input register and releases the    *)
(* handle afterwards, and leaves no callback registered and no pin         *)
(* configured as output.                                                   *)
Opened(h) == h.handle # <<>> /\ h.handle[1] >= 0

C3_CloseAlwaysTearsDown ==
    (op.name = "close" /\ Opened(op.pre))
    => /\ \E i, j \in 1..Len(calls) :
            /\ i < j
            /\ calls[i].fn = "CH341Set_D5_D0" /\ calls[i].args = <<0, 0>>
            /\ calls[j].fn = "CH341CloseDevice"
       /\ ~dev.open
       /\ dev.routine = 0
       /\ dev.rw = 0

(* C8: at most one callback is registered, and it is the handle's.  After  *)
(* every interrupt_bind and interrupt_clear: while the driver has a        *)
(* callback registered, it is the callback the handle                      *)
(* stores, and after an interrupt_bind it is the one just bound; after an  *)
(* interrupt_clear the driver has none; and interrupt_clear on a handle    *)
(* with no callback does not fail when the transport accepts the call.     *)
C8_OneCallback ==
    op.name \in {"interrupt_bind", "interrupt_clear"}
    => /\ dev.routine # 0
            => /\ callback = dev.routine
               /\ op.name = "interrupt_bind" => dev.routine = op.args[1]
       /\ op.name = "interrupt_clear" => dev.routine = 0
       /\ (op.name = "interrupt_clear" /\ op.pre.callback = 0 /\ AllOk(calls)) => ~op.raised

(* C9: open() with a negative handle from the transport raises and issues  *)
(* no reset and no set-exclusive request; otherwise the reset is issued    *)
(* right after the open and before any set-exclusive request, which is     *)
(* issued only after the reset succeeded.                                  *)
C9_OpenOrder ==
    op.name = "open"
    => /\ Len(calls) >= 1
       /\ calls[1].fn = "CH341OpenDevice"
       /\ calls[1].resp[1] < 0
            => op.raised /\ Len(calls) = 1
       /\ calls[1].resp[1] >= 0
            => /\ Len(calls) >= 2
               /\ calls[2].fn = "CH341ResetDevice"
               /\ \A i \in 1..Len(calls) :
                    calls[i].fn = "CH341SetExclusive" => i = 3 /\ calls[2].ok

(* C9's case: an open(exclusive=True) that went through the reset and the  *)
(* set-exclusive request.                                                  *)
C9_Witness ==
    /\ Did(op, "open", <<1>>)
    /\ Len(calls) = 3
    /\ calls[3] = Call("CH341SetExclusive", <<1>>, TRUE, <<>>)

----------------------------------------------------------------------------
(* The claims about GPIO *)

(* C4: GPIO register coherence.  For every pin p in 0..5 and every prior   *)
(* cached register, when set_io_rw(p, 1) is followed by io_write(p, 1) and *)
(* the transport accepts both, each call pushes the two-byte register      *)
(* exactly once, and the last register pushed has bit p set in the         *)
(* direction mask and in the output mask and every other bit as it was     *)
(* before the two calls.                                                   *)
C4_GpioCoherence ==
    [][\A p \in Pins :
        (Did(op, "set_io_rw", <<p, 1>>) /\ Did(op', "io_write", <<p, 1>>))
        => /\ Len(calls) = 1 /\ IsPush(calls[1])
           /\ Len(calls') = 1 /\ IsPush(calls'[1])
           /\ Bit(calls'[1].args[1], p) = 1
           /\ Bit(calls'[1].args[2], p) = 1
           /\ \A q \in (0..7) \ {p} :
                /\ Bit(calls'[1].args[1], q) = Bit(op.pre.io_rw, q)
                /\ Bit(calls'[1].args[2], q) = Bit(op.pre.io_out, q)]_vars

(* C4's case: from the new handle (register 0, 0) the first operation left *)
(* direction 0x08 and output 0x00, which only set_io_rw(3, true) does, and *)
(* io_write(3, 1) followed and pushed 0x08, 0x08.                          *)
C4_Witness ==
    /\ nops = 2
    /\ Did(op, "io_write", <<3, 1>>)
    /\ op.pre.io_rw = 8 /\ op.pre.io_out = 0
    /\ calls = <<Call("CH341Set_D5_D0", <<8, 8>>, TRUE, <<>>)>>

(* C6: reset sets all pins to input/low.  After a reset() that succeeded   *)
(* the cached direction and output masks are 0x00, so the next             *)
(* set_io_rw(p, x) or io_write(p, x) pushes a register in which no pin     *)
(* other than p is an output or high.                                      *)
C6_ResetClearsPins ==
    [][(op.name = "reset" /\ ~op.raised)
        => /\ io_rw = 0 /\ io_out = 0
           /\ \A p \in Pins :
                (op'.name \in {"set_io_rw", "io_write"} /\ op'.args[1] = p /\ ~op'.raised)
                => /\ Len(calls') = 1 /\ IsPush(calls'[1])
                   /\ \A q \in (0..7) \ {p} :
                        Bit(calls'[1].args[1], q) = 0 /\ Bit(calls'[1].args[2], q) = 0]_vars

(* C7: after a spi_init(cs) that completed, the last register pushed has   *)
(* IO3 (clock), IO5 (DOUT0) and IO4 (DOUT1) as outputs at level low and,   *)
(* for SPI_CS0/1/2, the chosen chip-select pin IO0/1/2 as output at level  *)
(* high; with SPI_NOCS the chip-select pins are as they were.              *)
CsPin(cs) == IF cs = SPI_CS0 THEN 0 ELSE IF cs = SPI_CS1 THEN 1 ELSE 2

C7_SpiInitPins ==
    (op.name = "spi_init" /\ ~op.raised)
    => LET reg == Last(calls).args
           cs == op.args[1]
       IN /\ IsPush(Last(calls))
          /\ \A q \in {3, 4, 5} : Bit(reg[1], q) = 1 /\ Bit(reg[2], q) = 0
          /\ cs \in {SPI_CS0, SPI_CS1, SPI_CS2}
                => Bit(reg[1], CsPin(cs)) = 1 /\ Bit(reg[2], CsPin(cs)) = 1
          /\ cs = SPI_NOCS
                => \A q \in {0, 1, 2} :
                      /\ Bit(reg[1], q) = Bit(op.pre.io_rw, q)
                      /\ Bit(reg[2], q) = Bit(op.pre.io_out, q)

----------------------------------------------------------------------------
(* The claims about the stream configuration *)

(* The speed class and the bit order a configuration word should carry *)
ExpectedSpeed ==
    IF hist.speed = <<>> THEN 0
    ELSE IF hist.speed[1] < 0 THEN 0
    ELSE IF hist.speed[1] > 3 THEN 3
    ELSE hist.speed[1]

ExpectedOrder == IF hist.order = <<>> THEN SPI_LSBFIRST ELSE hist.order[1]

(* C5: while the transport accepts every push, each set_i2c_speed and      *)
(* set_spi_bit_order call pushes exactly one configuration word, and that  *)
(* word is the clamped speed of the latest set_i2c_speed (0 if none)       *)
(* together with the bit order of the latest set_spi_bit_order (LSB-first  *)
(* if none): the speed in bits 0-1, the bit order in bit 7.                *)
C5_CombinedConfigWord ==
    (op.name \in {"set_i2c_speed", "set_spi_bit_order"} /\ hist.ok)
    => /\ Len(calls) = 1
       /\ calls[1].fn = "CH341SetStream"
       /\ calls[1].args = <<ExpectedSpeed + ExpectedOrder>>
       /\ dev.config = ExpectedSpeed + ExpectedOrder

(* C5's case: set_spi_bit_order(SPI_MSBFIRST) after set_i2c_speed(2) keeps *)
(* the speed bits in the word it pushes.                                   *)
C5_Witness ==
    /\ Did(op, "set_spi_bit_order", <<SPI_MSBFIRST>>)
    /\ hist = [speed |-> <<2>>, order |-> <<SPI_MSBFIRST>>, ok |-> TRUE]
    /\ calls = <<Call("CH341SetStream", <<130>>, TRUE, <<>>)>>

----------------------------------------------------------------------------
(* The claims about SPI *)

(* C10: spi_swap(buf1, buf2) with buffers of unequal length raises, issues *)
(* no transport call, and leaves both buffers and the handle's cached      *)
(* state as they were, for every pair of unequal lengths and every         *)
(* chip-select value.                                                      *)
Mismatched(o) ==
    /\ o.name = "spi_swap"
    /\ o.bufs[2] # <<>>
    /\ Len(o.bufs[1]) # Len(o.bufs[2][1])

C10_LengthMismatch ==
    Mismatched(op)
    => /\ op.raised
       /\ calls = <<>>
       /\ buf1 = op.bufs[1]
       /\ buf2 = op.bufs[2]
       /\ Handle = op.pre

(* C10's case: spi_swap of a one-byte and a two-byte buffer with SPI_CS0   *)
C10_Witness ==
    /\ Mismatched(op)
    /\ op.args = <<SPI_CS0>>
    /\ Len(op.bufs[1]) = 1
    /\ Len(op.bufs[2][1]) = 2

----------------------------------------------------------------------------
(* The claims about the bus scan *)

(* C1: a scan that returns lists address a, for every a in 0..126, exactly *)
(* when the transport reports ACK for the address byte a << 1 (bit 7 of    *)
(* the last status byte clear); the list is strictly ascending; and the    *)
(* scans of one bus return the same list.                                  *)
C1_ScanFindsAcked ==
    /\ \A k \in 1..Len(scans) :
          /\ \A a \in 0..126 : (a \in Range(scans[k])) <=> (a \in present)
          /\ \A i, j \in 1..Len(scans[k]) : i < j => scans[k][i] < scans[k][j]
    /\ \A k, l \in 1..Len(scans) : scans[k] = scans[l]
    /\ (op.name = "i2c_scan" /\ ~op.raised)
          => /\ op.ret = Last(scans)
             /\ \A a \in 0..126 :
                  (a \in Range(op.ret))
                  <=> \E i \in 1..Len(calls) :
                         /\ calls[i].fn = "CH341WriteRead"
                         /\ calls[i].args[3] = 2 * a
                         /\ Last(calls[i].resp) < 128

(* C1's case: two scans of a bus with devices at 0, 63 and 126 returned,   *)
(* the second one reading two-byte responses.                              *)
C1_Witness ==
    /\ present = {0, 63, 126}
    /\ scans = << <<0, 63, 126>>, <<0, 63, 126>> >>
    /\ Len(calls[2].resp) = 2

----------------------------------------------------------------------------
(* The claims about the speed class *)

(* C11: set_i2c_speed(s) with a transport that accepts the push raises no  *)
(* error for any integer s, negative and large ones included, stores the   *)
(* speed class max(0, min(3, s)), and pushes a configuration word whose    *)
(* speed bits are the clamped value; -5 stores 0 and 99 stores 3.          *)
C11_SpeedClamped ==
    (op.name = "set_i2c_speed" /\ AllOk(calls))
    => LET s == op.args[1]
           clamped == IF s < 0 THEN 0 ELSE IF s > 3 THEN 3 ELSE s
       IN /\ ~op.raised
          /\ i2c_speed = clamped
          /\ i2c_speed \in 0..3
          /\ Len(calls) = 1
          /\ calls[1].fn = "CH341SetStream"
          /\ BitAnd(calls[1].args[1], 127) = clamped
          /\ s = 0 - 5 => i2c_speed = 0
          /\ s = 99 => i2c_speed = 3

(* C11's case: set_i2c_speed(99) went through on a handle with speed class *)
(* 0, and the word pushed carries 3.                                       *)
C11_Witness ==
    /\ Did(op, "set_i2c_speed", <<99>>)
    /\ op.pre.i2c_speed = 0
    /\ i2c_speed = 3
    /\ BitAnd(calls[1].args[1], 127) = 3

----------------------------------------------------------------------------
(* The claims about the calls of a bus scan *)

StartCmd == <<mCH341A_CMD_I2C_STREAM, mCH341A_CMD_I2C_STM_STA, mCH341A_CMD_I2C_STM_END>>

StopCmd == <<mCH341A_CMD_I2C_STREAM, mCH341A_CMD_I2C_STM_STO, mCH341A_CMD_I2C_STM_END>>

IsStart(c) == c.fn = "CH341WriteData" /\ c.args = StartCmd

IsStop(c) == c.fn = "CH341WriteData" /\ c.args = StopCmd

(* C12: a scan the transport does not fail sends exactly 127 cycles, for   *)
(* the addresses 0..126 in ascending order, each one a start, the address  *)
(* byte a << 1 with its ACK check, and a stop; the stop is sent after an   *)
(* ACK as after a NACK, and the scan goes on after an ACK.                 *)
C12_ScanCycles ==
    (op.name = "i2c_scan" /\ ~op.raised)
    => /\ Len(calls) = 3 * 127
       /\ \A a \in 0..126 :
            /\ IsStart(calls[3 * a + 1])
            /\ calls[3 * a + 2].fn = "CH341WriteRead"
            /\ calls[3 * a + 2].args = <<170, 128, 2 * a, 0>>
            /\ IsStop(calls[3 * a + 3])

(* C12's case: a scan that found a device at address 0, the first one, and *)
(* another at 63, and went on to the stop of address 126.                  *)
C12_Witness ==
    /\ op.name = "i2c_scan" /\ ~op.raised
    /\ op.ret = <<0, 63>>
    /\ Last(calls[2].resp) < 128
    /\ IsStop(calls[3])
    /\ IsStop(calls[381])

(* C17: every start a scan sent and the transport accepted is followed by  *)
(* a stop before the scan returns or raises, whatever the transport does,  *)
(* a rejected or empty answer to the address byte included: the scan never *)
(* ends with the bus started and not stopped.                              *)
C17_StartHasStop ==
    op.name = "i2c_scan"
    => \A i \in 1..Len(calls) :
          (IsStart(calls[i]) /\ calls[i].ok)
          => \E j \in (i + 1)..Len(calls) : IsStop(calls[j])

----------------------------------------------------------------------------
(* The EEPROM type across the life of a handle *)

EepromTypeArgs == {IntArg(t) : t \in 0..MaxEepromType} \cup {NonIntArg}

EepromAddrs == {0, 255}

Lengths == {<<>>} \cup {<<n>> : n \in 0..MaxBufLen}

SetEepromType(etype, tr) ==
    /\ Commit("set_eeprom_type", <<etype>>, set_eeprom_type(Begin(tr), etype))
    /\ UNCHANGED <<present, scans, hist, nops>>

EepromRead(addr, length, tr) ==
    /\ Commit("eeprom_read", <<addr, length>>, eeprom_read(Begin(tr), addr, length))
    /\ UNCHANGED <<present, scans, hist, nops>>

EepromWrite(addr, tr) ==
    /\ Commit("eeprom_write", <<addr>>, eeprom_write(Begin(tr), addr))
    /\ UNCHANGED <<present, scans, hist, nops>>

EeSetEepromType == \E t \in EepromTypeArgs : SetEepromType(t, GoodTransport)

EeEepromRead ==
    \E addr \in EepromAddrs, length \in Lengths, failAt \in 0..1 :
        EepromRead(addr, length, Transport(failAt, FALSE, 0, 1, 90, 0))

EeEepromWrite ==
    \E addr \in EepromAddrs, failAt \in 0..1 : EepromWrite(addr, FailingAt(failAt))

EeReset == Reset(GoodTransport) /\ UNCHANGED nops

EeClose == \E failAt \in 0..1 : Close(FailingAt(failAt)) /\ UNCHANGED nops

EeOpen == \E exclusive \in {0, 1} : Open(exclusive, GoodTransport) /\ UNCHANGED nops

NextEeprom ==
    \/ EeSetEepromType
    \/ EeEepromRead
    \/ EeEepromWrite
    \/ EeReset
    \/ EeClose
    \/ EeOpen

(* The caller's buffers: one to write from, and none or a cleared one to   *)
(* read into                                                               *)
InitEeprom ==
    /\ InitHandle
    /\ present = {}
    /\ buf1 \in {<<>>, <<165>>}
    /\ buf2 \in {<<>>} \cup {<<[i \in 1..n |-> 0]>> : n \in 0..MaxBufLen}

SpecEeprom == InitEeprom /\ [][NextEeprom]_vars

----------------------------------------------------------------------------
(* The claims about the EEPROM type *)

IsEepromOp(o) == o.name \in {"eeprom_read", "eeprom_write"}

SetsType(o) == o.name = "set_eeprom_type" /\ o.args[1].int

(* C13: eeprom_read and eeprom_write on a handle whose EEPROM type was     *)
(* never set raise and issue no transport call; set_eeprom_type(t) with an *)
(* integer t succeeds and stores t; every EEPROM call made while t is      *)
(* stored passes t to the transport; and no operation other than another   *)
(* set_eeprom_type with an integer changes the stored type: not a reset, a *)
(* close or an open.                                                       *)
C13_EepromTypeSticks ==
    [][/\ (IsEepromOp(op') /\ eeprom_type = <<>>) => (op'.raised /\ calls' = <<>>)
       /\ (IsEepromOp(op') /\ eeprom_type # <<>>)
            => \A i \in 1..Len(calls') : calls'[i].args[1] = eeprom_type[1]
       /\ (op'.name = "eeprom_write" /\ eeprom_type # <<>>) => Len(calls') = 1
       /\ SetsType(op') => (~op'.raised /\ eeprom_type' = <<op'.args[1].val>>)
       /\ (eeprom_type # <<>> /\ ~SetsType(op')) => eeprom_type' = eeprom_type]_vars

(* C13's case: an eeprom_read on an opened handle passed type 1, the type  *)
(* stored before the call, to the transport and returned the bytes read.   *)
C13_Witness ==
    /\ op.name = "eeprom_read" /\ ~op.raised
    /\ op.pre.eeprom_type = <<1>>
    /\ handle = <<0>>
    /\ calls = <<Call("CH341ReadEEPROM", <<1, 255, 2>>, TRUE, <<90, 90>>)>>

----------------------------------------------------------------------------
(* Register writes and reads against peripherals that store what is written *)

DevAddrs == {1, 127, 128}

RegAddrs == {0, 255}

(* The caller passes the buffer b to write from *)
I2cWrite(dev_addr, addr, b, tr) ==
    /\ Commit("i2c_write", <<dev_addr, addr>>,
              i2c_write([Begin(tr) EXCEPT !.bufs = <<b, buf2>>], dev_addr, addr))
    /\ UNCHANGED <<present, scans, hist>>

(* The caller passes the buffer b to read into: <<>> for None *)
I2cRead(dev_addr, addr, b, length, tr) ==
    /\ Commit("i2c_read", <<dev_addr, addr, b, length>>,
              i2c_read([Begin(tr) EXCEPT !.bufs = <<buf1, b>>], dev_addr, addr, length))
    /\ UNCHANGED <<present, scans, hist>>

I2cI2cWrite ==
    /\ nops < MaxI2cOps
    /\ nops' = nops + 1
    /\ \E dev_addr \in DevAddrs, addr \in RegAddrs, b \in Buffers :
          I2cWrite(dev_addr, addr, b, GoodTransport)

(* A write the transport rejects *)
I2cI2cWriteFails ==
    /\ nops < MaxI2cOps
    /\ nops' = nops + 1
    /\ \E addr \in RegAddrs : I2cWrite(1, addr, <<165>>, FailingAt(1))

I2cI2cRead ==
    /\ nops < MaxI2cOps
    /\ nops' = nops + 1
    /\ \E dev_addr \in DevAddrs, addr \in RegAddrs, length \in Lengths,
          b \in {<<>>, <<[i \in 1..MaxBufLen |-> 0]>>} :
          I2cRead(dev_addr, addr, b, length, GoodTransport)

(* A write of more bytes than one packet carries: 2 + 31 *)
I2cI2cWriteLong ==
    /\ nops < MaxI2cOps
    /\ nops' = nops + 1
    /\ \E addr \in RegAddrs :
          I2cWrite(1, addr, [i \in 1..(mCH341_PACKET_LENGTH - 1) |-> 165], GoodTransport)

(* A read the transport rejects *)
I2cI2cReadFails ==
    /\ nops < MaxI2cOps
    /\ nops' = nops + 1
    /\ \E addr \in RegAddrs : I2cRead(1, addr, <<>>, <<1>>, FailingAt(1))

NextI2c ==
    \/ I2cI2cWrite
    \/ I2cI2cWriteFails
    \/ I2cI2cWriteLong
    \/ I2cI2cRead
    \/ I2cI2cReadFails

SpecI2c == InitCommon /\ [][NextI2c]_vars

----------------------------------------------------------------------------
(* The claims about register writes and reads *)

StreamI2C(c) == c.fn = "CH341StreamI2C"

(* C14: for every 7-bit device address D, register R and bytes B, against  *)
(* peripherals that store what is written by register address: i2c_write   *)
(* sends the one stream payload [D << 1, R] ++ B and nothing to read;      *)
(* i2c_read sends, in one stream call, the write phase [D << 1, R] and a   *)
(* read phase of exactly the length asked for; and i2c_read(D, R,          *)
(* length=len(B)) right after a completed i2c_write(D, R, B) returns B.    *)
C14_RoundTrip ==
    [][/\ (op'.name = "i2c_write" /\ op'.args[1] < 128)
            => /\ Len(calls') = 1
               /\ StreamI2C(calls'[1])
               /\ calls'[1].args = <<Len(buf1') + 2,
                                     <<2 * op'.args[1], op'.args[2]>> \o buf1', 0>>
       /\ (op'.name = "i2c_read" /\ op'.args[1] < 128 /\ op'.args[4] # <<>>
           /\ op'.args[3] = <<>>)
            => /\ Len(calls') = 1
               /\ StreamI2C(calls'[1])
               /\ calls'[1].args = <<2, <<2 * op'.args[1], op'.args[2]>>, op'.args[4][1]>>
       /\ (/\ op.name = "i2c_write" /\ ~op.raised
           /\ op'.name = "i2c_read"
           /\ op'.args = <<op.args[1], op.args[2], <<>>, <<Len(buf1)>>>>
           /\ AllOk(calls'))
            => (~op'.raised /\ op'.ret = buf1)]_vars

(* C14's case: i2c_read(127, 255, length=2) returned the bytes 165, 0 that *)
(* the i2c_write before it stored at registers 255 and 0 of device 127.    *)
C14_Witness ==
    /\ op.name = "i2c_read" /\ ~op.raised
    /\ op.args = <<127, 255, <<>>, <<2>>>>
    /\ op.ret = <<165, 0>>
    /\ buf1 = <<165, 0>>
    /\ mem[<<127, 255>>] = 165

(* C15: no command longer than the packet size of 32 bytes reaches the     *)
(* transport: an i2c_write whose payload 2 + len(data) exceeds 32 bytes is *)
(* rejected with an error or sent in pieces of at most 32 bytes.           *)
C15_PacketLimit ==
    op.name = "i2c_write"
    => \A i \in 1..Len(calls) :
          /\ calls[i].args[1] <= mCH341_PACKET_LENGTH
          /\ Len(calls[i].args[2]) <= mCH341_PACKET_LENGTH

----------------------------------------------------------------------------
(* interrupt_bind and interrupt_clear statement by statement, with the     *)
(* driver's interrupt thread running between the statements                *)

(* The steps leave the GPIO, configuration and bus state alone *)
IrqFrame ==
    UNCHANGED <<handle, eeprom_type, i2c_speed, spi_bit_order, io_rw, io_out, present,
                buf1, buf2, scans, nops, mem, hist>>

(* self._callback = _callback: a new wrapper object, which is none of the  *)
(* objects alive                                                           *)
BindStore ==
    /\ irq.pc = "idle"
    /\ \E fn \in Callbacks \ {callback, dev.routine} :
          /\ callback' = fn
          /\ irq' = [irq EXCEPT !.pc = "bind"]
          /\ op' = [name |-> "interrupt_bind", args |-> <<fn>>, raised |-> FALSE,
                    ret |-> <<>>, pre |-> Handle, bufs |-> <<buf1, buf2>>]
    /\ calls' = <<>>
    /\ UNCHANGED dev
    /\ IrqFrame

(* self._callback = c_void_p(0) *)
ClearStore ==
    /\ irq.pc = "idle"
    /\ callback' = 0
    /\ irq' = [irq EXCEPT !.pc = "clear"]
    /\ op' = [name |-> "interrupt_clear", args |-> <<>>, raised |-> FALSE,
              ret |-> <<>>, pre |-> Handle, bufs |-> <<buf1, buf2>>]
    /\ calls' = <<>>
    /\ UNCHANGED dev
    /\ IrqFrame

(* ch341dll.CH341SetIntRoutine(self.index, self._callback), accepted *)
SetIntRoutine ==
    /\ irq.pc \in {"bind", "clear"}
    /\ dev' = [dev EXCEPT !.routine = callback]
    /\ calls' = <<Call("CH341SetIntRoutine", <<callback>>, TRUE, <<>>)>>
    /\ irq' = [irq EXCEPT !.pc = "idle"]
    /\ UNCHANGED <<callback, op>>
    /\ IrqFrame

(* The interrupt thread calls the routine the driver has registered; the   *)
(* wrapper is alive while the handle refers to it.                         *)
Interrupt ==
    /\ dev.routine # 0
    /\ irq' = [irq EXCEPT !.invoked = <<[fn |-> dev.routine, alive |-> callback = dev.routine]>>]
    /\ UNCHANGED <<callback, dev, calls, op>>
    /\ IrqFrame

NextIrqSteps ==
    \/ BindStore
    \/ ClearStore
    \/ SetIntRoutine
    \/ Interrupt

SpecIrqSteps == InitCommon /\ [][NextIrqSteps]_vars

(* C16: under every interleaving of the interrupt thread with              *)
(* interrupt_bind and interrupt_clear, while the driver has a callback     *)
(* registered the handle refers to that same callback, so no interrupt     *)
(* invokes a callback the handle has released.                             *)
C16_RegisteredCallbackAlive ==
    /\ dev.routine # 0 => callback = dev.routine
    /\ \A i \in 1..Len(irq.invoked) : irq.invoked[i].alive

----------------------------------------------------------------------------
(* The claims about the registers pushed during spi_init *)

(* Pin p is an output at the level v in the register c pushes *)
Drives(c, p, v) == IsPush(c) /\ Bit(c.args[1], p) = 1 /\ Bit(c.args[2], p) = v

(* C18: during spi_init(cs) with a chip select, starting with the chip     *)
(* select pin an input, no register pushed has that pin an output at level *)
(* low: the level is pushed high, with the pin still an input, before the  *)
(* direction is pushed as output; and in no spi_init is the clock pin IO3  *)
(* pushed as an output at level high.                                      *)
C18_ChipSelectNeverLow ==
    op.name = "spi_init"
    => /\ \A i \in 1..Len(calls) : IsPush(calls[i]) /\ ~Drives(calls[i], 3, 1)
       /\ (op.args[1] \in {SPI_CS0, SPI_CS1, SPI_CS2} /\ Bit(op.pre.io_rw, CsPin(op.args[1])) = 0)
            => LET p == CsPin(op.args[1])
               IN /\ \A i \in 1..Len(calls) : ~Drives(calls[i], p, 0)
                  /\ \E i \in 1..Len(calls) :
                        /\ Bit(calls[i].args[1], p) = 0 /\ Bit(calls[i].args[2], p) = 1
                        /\ \A j \in 1..Len(calls) : Drives(calls[j], p, 1) => i < j
                        /\ \E j \in 1..Len(calls) : Drives(calls[j], p, 1)

(* C18's case: spi_init(SPI_CS1) on a register with IO1 an input at level  *)
(* low and the clock pin IO3 an output at level high.                      *)
C18_Witness ==
    /\ Did(op, "spi_init", <<SPI_CS1>>)
    /\ op.pre.io_rw = 8
    /\ op.pre.io_out = 8
    /\ Drives(calls[Len(calls)], 1, 1)

----------------------------------------------------------------------------
(* GPIO calls against a transport that may reject a push *)

FewPins == {0, NumPins - 1}

GfSetIoRw ==
    /\ nops < MaxGpioOps
    /\ nops' = nops + 1
    /\ \E io \in FewPins, rw \in {0, 1}, failAt \in 0..1 : SetIoRw(io, rw, FailingAt(failAt))

GfIoWrite ==
    /\ nops < MaxGpioOps
    /\ nops' = nops + 1
    /\ \E io \in FewPins, level \in {0, 1}, failAt \in 0..1 :
          IoWrite(io, level, FailingAt(failAt))

GfUpdateIoState ==
    /\ nops < MaxGpioOps
    /\ nops' = nops + 1
    /\ \E rw \in Masks, out \in Masks, failAt \in 0..1 :
          UpdateIoState(rw, out, FailingAt(failAt))

NextGpioFail ==
    \/ GfSetIoRw
    \/ GfIoWrite
    \/ GfUpdateIoState

SpecGpioFail == InitCommon /\ [][NextGpioFail]_vars

(* C19: the cached GPIO register is always the last register the transport *)
(* accepted: a set_io_rw, io_write or update_io_state whose push the       *)
(* transport rejects raises and leaves the cached masks as they were       *)
(* before the call.                                                        *)
C19_CacheIsLastAccepted ==
    /\ <<io_rw, io_out>> = <<dev.rw, dev.out>>
    /\ (op.name \in {"set_io_rw", "io_write", "update_io_state"} /\ ~AllOk(calls))
         => /\ op.raised
            /\ io_rw = op.pre.io_rw
            /\ io_out = op.pre.io_out

====
